---- MODULE Spec2Model ----
(***************************************************************************)
(* Model of src/regex.py: the RegexFSM builder (__init__) and the          *)
(* closure-based simulator (check_string).                                 *)
(*                                                                         *)
(* A Python str is a sequence of one-character strings.  Objects of the    *)
(* State classes live in `heap`, a sequence of records addressed by their  *)
(* index (object identity); 0 stands for None.                             *)
(***************************************************************************)
EXTENDS Integers, Sequences, FiniteSets, TLC

\* ---------------------------------------------------------------- bounds
MaxPatLen == 3
MaxInLen == 3
MaxReusePat == 2
MaxRepLen == 2
MaxConcLen == 1
MaxLiveLen == 2
NumCalls == 2

PatChars == {"a", "b", ".", "*", "+"}
InChars == {"a", "b", "+"}
ConcChars == {"a", "b"}

StrUpTo(chars, n) == UNION {[1..k -> chars] : k \in 0..n}

Patterns == StrUpTo(PatChars, MaxPatLen)
Inputs == StrUpTo(InChars, MaxInLen)
ReusePatterns == StrUpTo(PatChars, MaxReusePat)
RepInputs == StrUpTo(InChars, MaxRepLen)
ConcInputs == StrUpTo(ConcChars, MaxConcLen)
LiveInputs == StrUpTo(InChars, MaxLiveLen)
Calls == 1..NumCalls

\* ------------------------------------------------------------- the heap
None == 0

\* State.__init__ and the subclasses' __init__: a fresh object
NewState(kind, char) ==
    [kind |-> kind, char |-> char, next_states |-> <<>>, loop_state |-> None]

\* mutant: the transition is appended to the destination's list
add_next_reversed(h, from, to) ==
    [h EXCEPT ![to].next_states = Append(@, from)]

\* State.add_next: append to the object's own next_states list
add_next(h, from, to) ==
    [h EXCEPT ![from].next_states = Append(@, to)]

\* mutant: the quantifier state is given itself as loop_state
set_loop_state_self(h, q, atom) ==
    [h EXCEPT ![q].loop_state = q]

\* mutant: the assignment of loop_state is forgotten
set_loop_state_skip(h, q, atom) == h

\* star.loop_state = state / plus.loop_state = state
set_loop_state(h, q, atom) ==
    [h EXCEPT ![q].loop_state = atom]

\* mutant: AsciiState.check_self returns a truthy value for every character
check_self_any(h, st, ch) ==
    h[st].kind \in {"AsciiState", "DotState"}

\* check_self of the six classes, dispatched on the object's class
check_self(h, st, ch) ==
    CASE h[st].kind = "StartState" -> FALSE
      [] h[st].kind = "TerminationState" -> FALSE
      [] h[st].kind = "AsciiState" -> ch = h[st].char
      [] h[st].kind = "DotState" -> TRUE
      [] h[st].kind = "StarState" -> FALSE
      [] h[st].kind = "PlusState" -> FALSE

VARIABLES pattern, heap, start_state, term_state, prev, i, bpc, calls, remembered

vars == <<pattern, heap, start_state, term_state, prev, i, bpc, calls, remembered>>

\* ------------------------------------------------------------ the builder
\* mutant: '.' is built as a literal like any other character
AtomStateLiteral(c) == NewState("AsciiState", c)

\* mutant: every special character is built as a wildcard
AtomStateSpecial(c) ==
    IF c \in {".", "*", "+"} THEN NewState("DotState", "") ELSE NewState("AsciiState", c)

\* the atom state of one iteration: DotState for '.', AsciiState(c) otherwise
AtomState(c) ==
    IF c = "." THEN NewState("DotState", "") ELSE NewState("AsciiState", c)

\* pattern[i] of Python (0-based)
PatAt(p, k) == p[k + 1]

\* i+1 < len(pattern) and pattern[i+1] in ('*', '+')
HasQuant(p, k) == k + 1 < Len(p) /\ PatAt(p, k + 1) \in {"*", "+"}

\* mutant: the star branch adds prev -> star before prev -> atom
StarBranchSwapped(h, pr, c) ==
    LET state == Len(h) + 1
        star == Len(h) + 2
        h0 == h \o <<AtomState(c), NewState("StarState", "")>>
        h1 == add_next(h0, pr, star)
        h2 == add_next(h1, pr, state)
        h3 == add_next(h2, state, star)
        h4 == set_loop_state(h3, star, state)
    IN  [heap |-> h4, prev |-> star]

\* mutant: the star branch without the prev -> star transition
StarBranchNoSkip(h, pr, c) ==
    LET state == Len(h) + 1
        star == Len(h) + 2
        h0 == h \o <<AtomState(c), NewState("StarState", "")>>
        h1 == add_next(h0, pr, state)
        h2 == add_next(h1, state, star)
        h3 == set_loop_state(h2, star, state)
    IN  [heap |-> h3, prev |-> star]

\* the star branch: three transitions, the loop atom, in the code's order
StarBranch(h, pr, c) ==
    LET state == Len(h) + 1
        star == Len(h) + 2
        h0 == h \o <<AtomState(c), NewState("StarState", "")>>
        h1 == add_next(h0, pr, state)
        h2 == add_next(h1, state, star)
        h3 == set_loop_state(h2, star, state)
        h4 == add_next(h3, pr, star)
    IN  [heap |-> h4, prev |-> star]

\* mutant: the plus branch with a prev -> plus transition, as for star
PlusBranchSkip(h, pr, c) ==
    LET state == Len(h) + 1
        plus == Len(h) + 2
        h0 == h \o <<AtomState(c), NewState("PlusState", "")>>
        h1 == add_next(h0, pr, state)
        h2 == add_next(h1, state, plus)
        h3 == set_loop_state(h2, plus, state)
        h4 == add_next(h3, pr, plus)
    IN  [heap |-> h4, prev |-> plus]

\* the plus branch: two transitions and the loop atom
PlusBranch(h, pr, c) ==
    LET state == Len(h) + 1
        plus == Len(h) + 2
        h0 == h \o <<AtomState(c), NewState("PlusState", "")>>
        h1 == add_next(h0, pr, state)
        h2 == add_next(h1, state, plus)
        h3 == set_loop_state(h2, plus, state)
    IN  [heap |-> h3, prev |-> plus]

\* mutant: the bare branch hangs the atom on the first state instead of prev
BareBranchFromStart(h, pr, c) ==
    LET state == Len(h) + 1
        h0 == h \o <<AtomState(c)>>
        h1 == add_next(h0, 1, state)
    IN  [heap |-> h1, prev |-> state]

\* mutant: the bare branch does not advance prev
BareBranchKeepPrev(h, pr, c) ==
    LET state == Len(h) + 1
        h0 == h \o <<AtomState(c)>>
        h1 == add_next(h0, pr, state)
    IN  [heap |-> h1, prev |-> pr]

\* the branch without quantifier
BareBranch(h, pr, c) ==
    LET state == Len(h) + 1
        h0 == h \o <<AtomState(c)>>
        h1 == add_next(h0, pr, state)
    IN  [heap |-> h1, prev |-> state]

\* mutant: the star iteration advances i past the atom only
BuildStarStepOne ==
    /\ bpc = "build"
    /\ i < Len(pattern)
    /\ HasQuant(pattern, i)
    /\ PatAt(pattern, i + 1) = "*"
    /\ LET r == StarBranch(heap, prev, PatAt(pattern, i))
       IN  heap' = r.heap /\ prev' = r.prev
    /\ i' = i + 1
    /\ UNCHANGED <<pattern, start_state, term_state, bpc, calls, remembered>>

BuildStar ==
    /\ bpc = "build"
    /\ i < Len(pattern)
    /\ HasQuant(pattern, i)
    /\ PatAt(pattern, i + 1) = "*"
    /\ LET r == StarBranch(heap, prev, PatAt(pattern, i))
       IN  heap' = r.heap /\ prev' = r.prev
    /\ i' = i + 2
    /\ UNCHANGED <<pattern, start_state, term_state, bpc, calls, remembered>>

BuildPlus ==
    /\ bpc = "build"
    /\ i < Len(pattern)
    /\ HasQuant(pattern, i)
    /\ PatAt(pattern, i + 1) # "*"
    /\ LET r == PlusBranch(heap, prev, PatAt(pattern, i))
       IN  heap' = r.heap /\ prev' = r.prev
    /\ i' = i + 2
    /\ UNCHANGED <<pattern, start_state, term_state, bpc, calls, remembered>>

BuildBare ==
    /\ bpc = "build"
    /\ i < Len(pattern)
    /\ ~HasQuant(pattern, i)
    /\ LET r == BareBranch(heap, prev, PatAt(pattern, i))
       IN  heap' = r.heap /\ prev' = r.prev
    /\ i' = i + 1
    /\ UNCHANGED <<pattern, start_state, term_state, bpc, calls, remembered>>

\* loop exit: prev.add_next(self.term_state); the constructor returns
BuildFinish ==
    /\ bpc = "build"
    /\ ~(i < Len(pattern))
    /\ heap' = add_next(heap, prev, term_state)
    /\ bpc' = "ready"
    /\ UNCHANGED <<pattern, start_state, term_state, prev, i, calls, remembered>>

\* --------------------------------------------------------- the simulator
SeqToSet(q) == {q[k] : k \in 1..Len(q)}

\* list(states): some order of the set's elements
RECURSIVE SetToList(_)
SetToList(S) ==
    IF S = {} THEN <<>>
    ELSE LET x == CHOOSE y \in S : TRUE IN <<x>> \o SetToList(S \ {x})

\* mutant: PlusState is missing from the isinstance tuple
IsEpsilonNoPlus(h, st) == h[st].kind \in {"StartState", "StarState"}

\* isinstance(st, (StartState, StarState, PlusState))
IsEpsilon(h, st) == h[st].kind \in {"StartState", "StarState", "PlusState"}

\* mutant: the `nxt not in result` test is dropped
RECURSIVE ExpandNoCheck(_, _, _, _)
ExpandNoCheck(ns, k, stack, result) ==
    IF k > Len(ns) THEN [stack |-> stack, result |-> result]
    ELSE ExpandNoCheck(ns, k + 1, Append(stack, ns[k]), result \cup {ns[k]})

\* for nxt in st.next_states: if nxt not in result: result.add(nxt); stack.append(nxt)
RECURSIVE Expand(_, _, _, _)
Expand(ns, k, stack, result) ==
    IF k > Len(ns) THEN [stack |-> stack, result |-> result]
    ELSE IF ns[k] \notin result
         THEN Expand(ns, k + 1, Append(stack, ns[k]), result \cup {ns[k]})
         ELSE Expand(ns, k + 1, stack, result)

\* while stack: st = stack.pop(); ...
RECURSIVE ClosureLoop(_, _, _)
ClosureLoop(h, stack, result) ==
    IF stack = <<>> THEN result
    ELSE LET st == stack[Len(stack)]
             rest == SubSeq(stack, 1, Len(stack) - 1)
         IN  IF IsEpsilon(h, st)
             THEN LET e == Expand(h[st].next_states, 1, rest, result)
                  IN  ClosureLoop(h, e.stack, e.result)
             ELSE ClosureLoop(h, rest, result)

\* the while loop of closure with a record of what it did: every state put
\* on the stack (the initial list first), the number of pops, and the states
\* whose next_states were iterated
RECURSIVE ClosureRun(_, _, _, _)
ClosureRun(h, stack, result, log) ==
    IF stack = <<>> THEN [log EXCEPT !.result = result]
    ELSE LET st == stack[Len(stack)]
             rest == SubSeq(stack, 1, Len(stack) - 1)
         IN  IF IsEpsilon(h, st)
             THEN LET e == Expand(h[st].next_states, 1, rest, result)
                  IN  ClosureRun(h, e.stack, e.result,
                         [log EXCEPT
                            !.pushed = @ \o SubSeq(e.stack, Len(rest) + 1, Len(e.stack)),
                            !.pops = @ + 1,
                            !.followed = @ \cup {st}])
             ELSE ClosureRun(h, rest, result, [log EXCEPT !.pops = @ + 1])

\* closure(states) with list(states) giving the order `order`
ClosureTrace(h, order) ==
    ClosureRun(h, order, SeqToSet(order),
               [result |-> {}, pushed |-> order, pops |-> 0, followed |-> {}])

\* closure(states)
closure(h, states) == ClosureLoop(h, SetToList(states), states)

\* mutant: the start state is not removed from the initial active set
InitialActiveKeepStart(h, start) == closure(h, {start})

\* active = closure({start}); active.remove(start) if present
InitialActive(h, start) == closure(h, {start}) \ {start}

\* st.loop_state.check_self(ch) raises AttributeError when loop_state is None
LoopRaises(h, st) ==
    h[st].kind \in {"StarState", "PlusState"} /\ h[st].loop_state = None

\* some iteration of `for st in active` raises
StepRaises(h, active) == \E st \in active : LoopRaises(h, st)

\* isinstance(st, StarState) and st.loop_state.check_self(ch), same for Plus
LoopMatches(h, st, ch) ==
    /\ h[st].kind \in {"StarState", "PlusState"}
    /\ h[st].loop_state # None
    /\ check_self(h, h[st].loop_state, ch)

\* mutant: an active quantifier state is not added back to next_active
NextActiveNoLoop(h, active, ch) ==
    UNION {SeqToSet(h[st].next_states) : st \in {x \in active : check_self(h, x, ch)}}

\* next_active at the end of `for st in active`
NextActive(h, active, ch) ==
    UNION {SeqToSet(h[st].next_states) : st \in {x \in active : check_self(h, x, ch)}}
      \cup {st \in active : LoopMatches(h, st, ch)}

\* return self.term_state in closure(active)
Accepts(h, term, active) == term \in closure(h, active)

\* the caller's record of one earlier result: <<>> or <<input, result, other>>,
\* other = a call with a different input was started since
NoteCall(rem, s) ==
    IF rem # <<>> /\ rem[1] # s THEN <<rem[1], rem[2], TRUE>> ELSE rem

IdleCall ==
    [pc |-> "idle", s |-> <<>>, pos |-> 0, active |-> {}, next_active |-> {},
     ret |-> FALSE]

\* mutant: active is kept across calls and not reset on entry
CallStartStale(c, s) ==
    /\ bpc = "ready"
    /\ calls[c].pc = "idle"
    /\ calls' = [calls EXCEPT ![c] = [pc |-> "loop", s |-> s, pos |-> 0,
                    active |-> InitialActive(heap, start_state) \cup calls[c].active,
                    next_active |-> {}, ret |-> FALSE]]
    /\ remembered' = NoteCall(remembered, s)
    /\ UNCHANGED <<pattern, heap, start_state, term_state, prev, i, bpc>>

\* entry of check_string up to the for loop
CallStart(c, s) ==
    /\ bpc = "ready"
    /\ calls[c].pc = "idle"
    /\ calls' = [calls EXCEPT ![c] = [pc |-> "loop", s |-> s, pos |-> 0,
                    active |-> InitialActive(heap, start_state),
                    next_active |-> {}, ret |-> FALSE]]
    /\ remembered' = NoteCall(remembered, s)
    /\ UNCHANGED <<pattern, heap, start_state, term_state, prev, i, bpc>>

\* mutant: a matching loop atom is recorded as a back edge st.add_next(st)
CallStepBackEdge(c) ==
    /\ calls[c].pc = "loop"
    /\ calls[c].pos < Len(calls[c].s)
    /\ LET ch == calls[c].s[calls[c].pos + 1]
           loops == {st \in calls[c].active : LoopMatches(heap, st, ch)}
       IN  /\ calls' = [calls EXCEPT
                    ![c].active = closure(heap, NextActive(heap, calls[c].active, ch)),
                    ![c].pos = @ + 1]
           /\ heap' = IF loops = {} THEN heap
                      ELSE LET q == CHOOSE st \in loops : TRUE IN add_next(heap, q, q)
    /\ UNCHANGED <<pattern, start_state, term_state, prev, i, bpc, remembered>>

\* mutant: one active set, kept on the automaton, serves every call
CallStepShared(c) ==
    /\ calls[c].pc = "loop"
    /\ calls[c].pos < Len(calls[c].s)
    /\ LET ch == calls[c].s[calls[c].pos + 1]
           shared == closure(heap, NextActive(heap, calls[1].active, ch))
       IN  calls' = [d \in Calls |->
                       IF d = c THEN [calls[d] EXCEPT !.active = shared, !.pos = @ + 1]
                       ELSE [calls[d] EXCEPT !.active = shared]]
    /\ UNCHANGED <<pattern, heap, start_state, term_state, prev, i, bpc, remembered>>

\* one iteration of `for ch in s`
CallStep(c) ==
    /\ calls[c].pc = "loop"
    /\ calls[c].pos < Len(calls[c].s)
    /\ LET ch == calls[c].s[calls[c].pos + 1]
       IN  IF StepRaises(heap, calls[c].active)
           THEN calls' = [calls EXCEPT ![c].pc = "raised"]
           ELSE calls' = [calls EXCEPT
                    ![c].next_active = NextActive(heap, calls[c].active, ch),
                    ![c].active = closure(heap, NextActive(heap, calls[c].active, ch)),
                    ![c].pos = @ + 1]
    /\ UNCHANGED <<pattern, heap, start_state, term_state, prev, i, bpc, remembered>>

\* after the loop: the last closure and the membership test
CallFinish(c) ==
    /\ calls[c].pc = "loop"
    /\ calls[c].pos = Len(calls[c].s)
    /\ calls' = [calls EXCEPT
                    ![c].active = closure(heap, calls[c].active),
                    ![c].ret = Accepts(heap, term_state, calls[c].active),
                    ![c].pc = "done"]
    /\ UNCHANGED <<pattern, heap, start_state, term_state, prev, i, bpc, remembered>>

\* the caller takes the result; the automaton is free for the next call
\* (the locals of the finished call are dead: CallStart rebinds every one)
CallReturn(c) ==
    /\ calls[c].pc = "done"
    /\ calls' = [calls EXCEPT ![c].pc = "idle"]
    /\ UNCHANGED <<pattern, heap, start_state, term_state, prev, i, bpc, remembered>>

\* the caller keeps the result of a finished call to compare later ones with
Observe(c) ==
    /\ calls[c].pc = "done"
    /\ remembered = <<>>
    /\ remembered' = <<calls[c].s, calls[c].ret, FALSE>>
    /\ UNCHANGED <<pattern, heap, start_state, term_state, prev, i, bpc, calls>>

\* check_string as one function of the graph and the input
RECURSIVE RunFrom(_, _, _, _)
RunFrom(h, active, s, k) ==
    IF k > Len(s) THEN active
    ELSE RunFrom(h, closure(h, NextActive(h, active, s[k])), s, k + 1)

check_string(h, start, term, s) ==
    Accepts(h, term, RunFrom(h, InitialActive(h, start), s, 1))

\* ------------------------------------------------------- specifications
\* lines 79-82: the two distinguished states, prev and i
InitWith(pats) ==
    /\ pattern \in pats
    /\ heap = <<NewState("StartState", ""), NewState("TerminationState", "")>>
    /\ start_state = 1
    /\ term_state = 2
    /\ prev = 1
    /\ i = 0
    /\ bpc = "build"
    /\ calls = [c \in Calls |-> IdleCall]
    /\ remembered = <<>>

Build == BuildStar \/ BuildPlus \/ BuildBare \/ BuildFinish

Init == InitWith(Patterns)

Next ==
    \/ Build
    \/ \E s \in Inputs : CallStart(1, s)
    \/ CallStep(1)
    \/ CallFinish(1)

Spec == Init /\ [][Next]_vars

\* one caller reusing the compiled automaton for call after call
NextRepeat ==
    \/ Build
    \/ \E s \in RepInputs : CallStart(1, s)
    \/ CallStep(1)
    \/ CallFinish(1)
    \/ CallReturn(1)
    \/ Observe(1)

InitReuse == InitWith(ReusePatterns)

SpecRepeat == InitReuse /\ [][NextRepeat]_vars

\* several calls on one automaton, their steps interleaved
NextConc ==
    \/ Build
    \/ \E c \in Calls :
          \/ \E s \in ConcInputs : CallStart(c, s)
          \/ CallStep(c)
          \/ CallFinish(c)

SpecConc == InitReuse /\ [][NextConc]_vars

\* every started call is eventually scheduled to run its next step
NextLive ==
    \/ Build
    \/ \E s \in LiveInputs : CallStart(1, s)
    \/ CallStep(1)
    \/ CallFinish(1)

SpecLive ==
    InitReuse /\ [][NextLive]_vars /\ WF_vars(CallStep(1)) /\ WF_vars(CallFinish(1))

\* ------------------------------------------------- the language of a pattern
\* an atom matches a character: the wildcard any, a literal only itself
AtomMatches(atom, ch) == atom = "." \/ atom = ch

\* the quantifier that follows the atom at position j: "*", "+" or "1" (none)
QuantAt(p, j) ==
    IF j + 1 <= Len(p) /\ p[j + 1] \in {"*", "+"} THEN p[j + 1] ELSE "1"

\* s[k..] belongs to the language of p[j..], p read left to right as atoms
\* each optionally followed by one quantifier
RECURSIVE InLang(_, _, _, _)
InLang(p, j, s, k) ==
    IF j > Len(p) THEN k > Len(s)
    ELSE LET q == QuantAt(p, j)
             one == k <= Len(s) /\ AtomMatches(p[j], s[k])
         IN  CASE q = "1" -> one /\ InLang(p, j + 1, s, k + 1)
               [] q = "*" -> InLang(p, j + 2, s, k) \/ (one /\ InLang(p, j, s, k + 1))
               [] q = "+" -> one /\ (InLang(p, j + 2, s, k + 1) \/ InLang(p, j, s, k + 1))

Language(p, s) == InLang(p, 1, s, 1)

Done(c) == calls[c].pc = "done"

\* C1: a finished check_string call returned true iff the whole input is in
\* the language of the pattern (atoms with optional '*' / '+'); matching only
\* a prefix or a substring does not give true.
C1_FullMatch ==
    Done(1) => (calls[1].ret <=> Language(pattern, calls[1].s))

\* a call accepted a three-character input under a pattern with a quantifier
C1_Witness ==
    /\ Done(1)
    /\ calls[1].ret
    /\ Len(calls[1].s) = MaxInLen
    /\ \E k \in 1..Len(pattern) : pattern[k] \in {"*", "+"} /\ k > 1

\* ------------------------------------------------------------ C2
NoQuantifier(p) == \A k \in 1..Len(p) : p[k] \notin {"*", "+"}

NoWildcard(p) == \A k \in 1..Len(p) : p[k] # "."

\* C2 as stated: for a pattern without '*' and '+', check_string(s) is true
\* iff s equals the pattern character for character.
C2_Original ==
    (Done(1) /\ NoQuantifier(pattern)) => (calls[1].ret <=> calls[1].s = pattern)

\* C2 amended: for a pattern without '*', '+' and without the wildcard '.',
\* check_string(s) is true iff s equals the pattern character for character.
C2_LiteralEquality ==
    (Done(1) /\ NoQuantifier(pattern) /\ NoWildcard(pattern))
        => (calls[1].ret <=> calls[1].s = pattern)

\* a pattern of literals only accepted an input of the greatest length
C2_Witness ==
    /\ Done(1)
    /\ NoQuantifier(pattern) /\ NoWildcard(pattern)
    /\ Len(pattern) = MaxInLen
    /\ calls[1].ret

\* ------------------------------------------------------------ C3
\* the positions of the pattern that are read as atoms
RECURSIVE AtomsFrom(_, _)
AtomsFrom(p, j) ==
    IF j > Len(p) THEN {}
    ELSE {j} \cup AtomsFrom(p, IF QuantAt(p, j) = "1" THEN j + 1 ELSE j + 2)

Atoms(p) == AtomsFrom(p, 1)

HasPlusAtom(p) == \E j \in Atoms(p) : QuantAt(p, j) = "+"

PlusStates == {x \in DOMAIN heap : heap[x].kind = "PlusState"}

\* C3: with an atom quantified by '+' in the pattern, check_string("") is
\* false, and the initial active set holds neither a Plus state nor a state
\* built after one nor the termination state.
C3_PlusRejectsEmpty ==
    HasPlusAtom(pattern) =>
        /\ (Done(1) /\ calls[1].s = <<>>) => ~calls[1].ret
        /\ (calls[1].pc = "loop" /\ calls[1].pos = 0) =>
              \A q \in PlusStates : \A x \in calls[1].active :
                  x < q /\ x # term_state

\* the empty input was rejected by a pattern that is a single X+
C3_Witness ==
    /\ Done(1)
    /\ calls[1].s = <<>>
    /\ ~calls[1].ret
    /\ Len(pattern) = 2
    /\ HasPlusAtom(pattern)

\* ------------------------------------------------------------ C4
\* the states reachable from S through transitions out of Start, Star, Plus
RECURSIVE EpsReach(_, _)
EpsReach(h, S) ==
    LET T == S \cup {n \in DOMAIN h :
                        \E x \in S : /\ h[x].kind \in {"StartState", "StarState", "PlusState"}
                                     /\ \E k \in 1..Len(h[x].next_states) :
                                            h[x].next_states[k] = n}
    IN  IF T = S THEN S ELSE EpsReach(h, T)

AllStarred(p) == \A j \in Atoms(p) : QuantAt(p, j) = "*"

\* C4: on the empty input check_string is true iff termination is reachable
\* from start by epsilon transitions only, which is exactly when the pattern
\* is empty or every atom is quantified by '*'.
C4_EmptyInput ==
    (Done(1) /\ calls[1].s = <<>>) =>
        /\ calls[1].ret <=> term_state \in EpsReach(heap, {start_state})
        /\ calls[1].ret <=> AllStarred(pattern)

\* check_string("") returned true for a pattern that is a single X*
C4_Witness ==
    /\ Done(1)
    /\ calls[1].s = <<>>
    /\ calls[1].ret
    /\ Len(pattern) = 2
    /\ pattern[2] = "*"

\* ------------------------------------------------------------ C5
\* C5: the pattern "." accepts every one-character input and rejects the
\* empty input and every input of two or more characters.
C5_WildcardOne ==
    (Done(1) /\ pattern = <<".">>) => (calls[1].ret <=> Len(calls[1].s) = 1)

\* the pattern "." accepted a one-character input and the call finished
C5_Witness ==
    /\ Done(1)
    /\ pattern = <<".">>
    /\ Len(calls[1].s) = 1
    /\ calls[1].ret

\* ------------------------------------------------------------ C6
\* C6: a call with the same input as an earlier observed call returns the
\* same result, whatever calls were made in between.
C6_SameResult ==
    (Done(1) /\ remembered # <<>> /\ remembered[1] = calls[1].s)
        => calls[1].ret = remembered[2]

\* a result was observed, a call with another input ran, and a later call
\* with the observed input has finished
C6_Witness ==
    /\ Done(1)
    /\ remembered # <<>>
    /\ remembered[1] = calls[1].s
    /\ remembered[3]
    /\ remembered[2]

\* ------------------------------------------------------------ C7
\* C7: once the constructor has returned, no step changes the set of states,
\* any state's transition list or loop-atom reference, or the start and
\* termination states.
C7_GraphImmutable ==
    [][bpc = "ready" =>
          /\ heap' = heap
          /\ start_state' = start_state
          /\ term_state' = term_state]_vars

\* a second call has consumed input through a quantifier's loop
C7_Witness ==
    /\ Done(1)
    /\ remembered # <<>>
    /\ remembered[3]
    /\ Len(calls[1].s) = MaxRepLen
    /\ calls[1].ret
    /\ \E q \in DOMAIN heap : heap[q].kind \in {"StarState", "PlusState"}

\* ------------------------------------------------------------ C8
\* C8: with calls interleaved on one automaton, every finished call holds
\* the result of running alone on its input, and a step of one call changes
\* no other call's locals.
C8_Isolation ==
    /\ [](\A c \in Calls :
            Done(c) => calls[c].ret =
                          check_string(heap, start_state, term_state, calls[c].s))
    /\ [][\A c, d \in Calls :
            (c # d /\ calls'[c] # calls[c]) => calls'[d] = calls[d]]_vars

\* two calls with different inputs have both consumed their characters and
\* hold different active sets, neither having returned
C8_Witness ==
    /\ calls[1].pc = "loop" /\ calls[2].pc = "loop"
    /\ calls[1].pos = MaxConcLen /\ calls[2].pos = MaxConcLen
    /\ calls[1].s # calls[2].s
    /\ calls[1].active # calls[2].active

\* ------------------------------------------------------------ C9
\* C9: check_string never raises, takes one step per input character, and
\* every started call finishes with a boolean.
C9_Total ==
    /\ [](/\ calls[1].pc # "raised"
          /\ calls[1].pos <= Len(calls[1].s)
          /\ Done(1) => (calls[1].pos = Len(calls[1].s) /\ calls[1].ret \in BOOLEAN))
    /\ (calls[1].pc = "loop") ~> Done(1)

\* a call went through a Star state's loop atom on every character and finished
C9_Witness ==
    /\ Done(1)
    /\ Len(calls[1].s) = MaxLiveLen
    /\ \E q \in calls[1].active : heap[q].kind = "StarState"

\* ------------------------------------------------------------ C10
PatChar(p, ch) == \E k \in 1..Len(p) : p[k] = ch

HasAbsentChar(p, s) == \E k \in 1..Len(s) : ~PatChar(p, s[k])

\* C10 as stated: an input with a character absent from the pattern is
\* rejected.
C10_Original ==
    (Done(1) /\ HasAbsentChar(pattern, calls[1].s)) => ~calls[1].ret

\* C10 amended: when the pattern has no wildcard '.', an input with a
\* character absent from the pattern is rejected; with or without a
\* wildcard the call does not fail.
C10_AbsentChar ==
    /\ calls[1].pc # "raised"
    /\ (Done(1) /\ NoWildcard(pattern) /\ HasAbsentChar(pattern, calls[1].s))
          => ~calls[1].ret

\* rejected: an input whose last character is the one the pattern lacks
C10_Witness ==
    /\ Done(1)
    /\ NoWildcard(pattern)
    /\ Len(pattern) > 0
    /\ Len(calls[1].s) = Len(pattern)
    /\ ~PatChar(pattern, calls[1].s[Len(calls[1].s)])
    /\ \A k \in 1..(Len(pattern) - 1) : calls[1].s[k] = pattern[k]
    /\ ~calls[1].ret

\* ------------------------------------------------------------ C11
\* what the character at position j is read as: the kind and the character
\* of the state it stands for
ReadAs(p, j) ==
    IF j \in Atoms(p)
    THEN IF p[j] = "." THEN <<"DotState", "">> ELSE <<"AsciiState", p[j]>>
    ELSE IF p[j] = "*" THEN <<"StarState", "">> ELSE <<"PlusState", "">>

QuantChars == {"*", "+"}

\* C11: the constructor finishes for every pattern: while it runs an
\* iteration or the loop exit is enabled and i stays within the pattern, and
\* in the finished graph the state of every pattern character is the literal,
\* wildcard or quantifier state the character is read as, a '*' or '+' in
\* atom position being a literal that matches that character only.
C11_BuildTotal ==
    /\ i <= Len(pattern)
    /\ bpc = "build" => ENABLED Build
    /\ bpc = "ready" =>
          /\ i = Len(pattern)
          /\ Len(heap) = Len(pattern) + 2
          /\ \A j \in 1..Len(pattern) :
                <<heap[j + 2].kind, heap[j + 2].char>> = ReadAs(pattern, j)
          /\ \A j \in Atoms(pattern) : \A ch \in InChars :
                pattern[j] \in QuantChars => (check_self(heap, j + 2, ch) <=> ch = pattern[j])

\* a pattern of quantifier characters only was built and has matched an input
\* of the same characters
C11_Witness ==
    /\ Done(1)
    /\ calls[1].ret
    /\ Len(pattern) = MaxPatLen
    /\ \A k \in 1..Len(pattern) : pattern[k] \in QuantChars
    /\ Len(calls[1].s) = MaxInLen

\* ------------------------------------------------------------ C12
\* x has a transition to y
Edge(h, x, y) == \E k \in 1..Len(h[x].next_states) : h[x].next_states[k] = y

\* the states reachable from S along transitions of any kind
RECURSIVE Reach(_, _)
Reach(h, S) ==
    LET T == S \cup {y \in DOMAIN h : \E x \in S : Edge(h, x, y)}
    IN  IF T = S THEN S ELSE Reach(h, T)

\* C12: in the finished graph no transition enters the start state and no
\* other state reaches it, the termination state has no outgoing transition,
\* and every state is reachable from the start state.
C12_GraphShape ==
    bpc = "ready" =>
        /\ \A x \in DOMAIN heap : ~Edge(heap, x, start_state)
        /\ \A x \in DOMAIN heap \ {start_state} : start_state \notin Reach(heap, {x})
        /\ heap[term_state].next_states = <<>>
        /\ Reach(heap, {start_state}) = DOMAIN heap

\* a finished graph with a Star state, a Plus state or both after a first atom
C12_Witness ==
    /\ bpc = "ready"
    /\ Len(pattern) = MaxPatLen
    /\ \E q \in DOMAIN heap : heap[q].kind \in {"StarState", "PlusState"} /\ q > 4

\* ------------------------------------------------------------ C13
CoreStates == {x \in DOMAIN heap : heap[x].kind \in {"AsciiState", "DotState"}}

QuantStates == {x \in DOMAIN heap : heap[x].kind \in {"StarState", "PlusState"}}

\* C13 as stated: the finished graph holds L states besides start and
\* termination, one core state per atom character and one quantifier state
\* per '*' or '+' character of the pattern.
C13_Original ==
    bpc = "ready" =>
        /\ Len(heap) = Len(pattern) + 2
        /\ Cardinality(CoreStates) = Cardinality(Atoms(pattern))
        /\ Cardinality(QuantStates) =
              Cardinality({k \in 1..Len(pattern) : pattern[k] \in QuantChars})

\* C13 amended: the finished graph holds L states besides start and
\* termination: one core state per character in atom position (a '*' or '+'
\* there included) and one quantifier state per '*' or '+' that immediately
\* follows an atom.
C13_StateCount ==
    bpc = "ready" =>
        /\ Len(heap) = Len(pattern) + 2
        /\ Cardinality(CoreStates) = Cardinality(Atoms(pattern))
        /\ Cardinality(QuantStates) =
              Cardinality((1..Len(pattern)) \ Atoms(pattern))
        /\ CoreStates \cup QuantStates = DOMAIN heap \ {start_state, term_state}

\* a finished graph of a pattern of the greatest length with a quantified atom
C13_Witness ==
    /\ bpc = "ready"
    /\ Len(pattern) = MaxPatLen
    /\ QuantStates # {}
    /\ Cardinality(CoreStates) = 2

\* ------------------------------------------------------------ C14
\* the builder stands before an atom followed by q
QuantAhead(q) ==
    bpc = "build" /\ i < Len(pattern) /\ QuantAt(pattern, i + 1) = q

\* the number of transitions in the graph
RECURSIVE CountEdges(_, _)
CountEdges(h, x) ==
    IF x > Len(h) THEN 0 ELSE Len(h[x].next_states) + CountEdges(h, x + 1)

\* C14: the step taken at an atom followed by '*' creates the atom and the
\* Star state, adds exactly three transitions (prev -> atom, atom -> Star,
\* prev -> Star, prev's list growing by atom then Star), sets the Star's loop
\* atom to the atom, makes the Star the new prev and advances i by two.
C14_StarStep ==
    [][QuantAhead("*") =>
          LET atom == Len(heap) + 1
              star == Len(heap) + 2
          IN  /\ Len(heap') = Len(heap) + 2
              /\ heap'[prev].next_states = heap[prev].next_states \o <<atom, star>>
              /\ heap'[atom].next_states = <<star>>
              /\ heap'[atom].kind \in {"AsciiState", "DotState"}
              /\ heap'[star].kind = "StarState"
              /\ heap'[star].next_states = <<>>
              /\ heap'[star].loop_state = atom
              /\ CountEdges(heap', 1) = CountEdges(heap, 1) + 3
              /\ prev' = star
              /\ i' = i + 2]_vars

\* the builder has just taken the star step for the second atom of a pattern
C14_Witness ==
    /\ bpc = "build"
    /\ i = 3
    /\ prev = 5
    /\ heap[prev].kind = "StarState"
    /\ heap[3].next_states = <<4, 5>>
    /\ heap[4].next_states = <<5>>
    /\ heap[prev].loop_state = 4

\* ------------------------------------------------------------ C15
\* C15: the step taken at an atom followed by '+' adds exactly prev -> atom
\* and atom -> Plus and sets the Plus's loop atom; at all times the only
\* transition into a Plus state comes from its loop atom, and a Plus state
\* is active only when the last consumed character matched its loop atom.
C15_PlusStep ==
    /\ [][QuantAhead("+") =>
            LET atom == Len(heap) + 1
                plus == Len(heap) + 2
            IN  /\ Len(heap') = Len(heap) + 2
                /\ heap'[prev].next_states = Append(heap[prev].next_states, atom)
                /\ heap'[atom].next_states = <<plus>>
                /\ heap'[plus].kind = "PlusState"
                /\ heap'[plus].next_states = <<>>
                /\ heap'[plus].loop_state = atom
                /\ CountEdges(heap', 1) = CountEdges(heap, 1) + 2
                /\ prev' = plus
                /\ i' = i + 2]_vars
    /\ [](\A q \in PlusStates :
            /\ {x \in DOMAIN heap : Edge(heap, x, q)} = {heap[q].loop_state}
            /\ Len(heap[heap[q].loop_state].next_states) = 1
            /\ q \in calls[1].active =>
                  /\ calls[1].pos >= 1
                  /\ check_self(heap, heap[q].loop_state, calls[1].s[calls[1].pos]))

\* a call ended with a Plus state active that follows an earlier atom
C15_Witness ==
    /\ Done(1)
    /\ calls[1].pos = MaxInLen
    /\ \E q \in PlusStates : q = 5 /\ q \in calls[1].active

\* ------------------------------------------------------------ C16
\* the call stands before the character at pos + 1
StepAhead == calls[1].pc = "loop" /\ calls[1].pos < Len(calls[1].s)

AheadChar == calls[1].s[calls[1].pos + 1]

\* (1) the destinations of every active state that accepts ch
ByTransition(ch) ==
    {y \in DOMAIN heap :
        \E x \in calls[1].active : check_self(heap, x, ch) /\ Edge(heap, x, y)}

\* (2) the active Star and Plus states whose loop atom accepts ch
ByLoopAtom(ch) ==
    {q \in calls[1].active \cap QuantStates : check_self(heap, heap[q].loop_state, ch)}

\* C16: a character step leaves in next_active exactly the union of (1) and
\* (2), so an active quantifier state whose loop atom accepts the character
\* is active after the step; the graph holds no transition from a quantifier
\* state back to its loop atom or to itself, and Start, Termination, Star
\* and Plus states accept no character.
C16_StepUnion ==
    /\ [][StepAhead =>
            /\ calls'[1].next_active = ByTransition(AheadChar) \cup ByLoopAtom(AheadChar)
            /\ ByLoopAtom(AheadChar) \subseteq calls'[1].active]_vars
    /\ [](/\ \A q \in QuantStates :
                ~Edge(heap, q, q) /\ ~Edge(heap, q, heap[q].loop_state)
          /\ \A x \in DOMAIN heap \ CoreStates : \A ch \in InChars :
                ~check_self(heap, x, ch))

\* under a pattern X* the second character was consumed by the Star state
\* alone, which stayed active through its loop atom
C16_Witness ==
    /\ calls[1].pc = "loop"
    /\ Len(pattern) = 2
    /\ pattern[2] = "*"
    /\ calls[1].pos = 2
    /\ calls[1].next_active = {4}
    /\ 4 \in calls[1].active

\* ------------------------------------------------------------ C17
\* every order in which list(states) may give the elements of S
RECURSIVE Orders(_)
Orders(S) ==
    IF S = {} THEN {<<>>}
    ELSE UNION {{<<x>> \o o : o \in Orders(S \ {x})} : x \in S}

\* the sets this state of the call passes or has passed to closure
ClosureInputs ==
    IF bpc = "ready"
    THEN {{start_state}, calls[1].next_active, calls[1].active}
    ELSE {}

NoRepeat(q) == \A a, b \in 1..Len(q) : a # b => q[a] # q[b]

\* C17: for every set passed to closure and every order of its worklist, the
\* loop ends after at most one pop per state, no state is put on the worklist
\* twice, only Start, Star and Plus states have their transitions followed,
\* and the result is the smallest set that contains the given states and is
\* closed under those transitions.
C17_Closure ==
    \A S \in ClosureInputs :
        /\ closure(heap, S) = EpsReach(heap, S)
        /\ \A o \in Orders(S) :
              LET r == ClosureTrace(heap, o)
              IN  /\ r.result = EpsReach(heap, S)
                  /\ NoRepeat(r.pushed)
                  /\ r.pops = Len(r.pushed)
                  /\ r.pops <= Len(heap)
                  /\ \A x \in r.followed :
                        heap[x].kind \in {"StartState", "StarState", "PlusState"}

\* the last closure of a call ran on a set that already held a Star state and
\* the state that Star leads to
C17_Witness ==
    /\ Done(1)
    /\ \E q \in calls[1].active :
          /\ heap[q].kind = "StarState"
          /\ \E y \in calls[1].active : Edge(heap, q, y)
    /\ calls[1].pos = MaxInLen

\* ------------------------------------------------------------ C18
IsPrefix(q, r) == Len(q) <= Len(r) /\ SubSeq(r, 1, Len(q)) = q

\* C18: every builder iteration advances i (by 1 at a bare atom, by 2 at a
\* quantified one), and every builder step keeps all existing states, only
\* appends to the transition list of the current prev, and leaves the
\* transitions and loop atoms of all other existing states as they were.
C18_ForwardPass ==
    [][bpc = "build" =>
          /\ i < Len(pattern) =>
                i' = i + (IF QuantAt(pattern, i + 1) = "1" THEN 1 ELSE 2)
          /\ i' >= i
          /\ Len(heap') >= Len(heap)
          /\ \A x \in DOMAIN heap :
                /\ x # prev => heap'[x] = heap[x]
                /\ heap'[x].kind = heap[x].kind
                /\ heap'[x].char = heap[x].char
                /\ heap'[x].loop_state = heap[x].loop_state
                /\ IsPrefix(heap[x].next_states, heap'[x].next_states)]_vars

\* the builder took a quantified iteration and then a bare one
C18_Witness ==
    /\ bpc = "build"
    /\ i = 3
    /\ prev = 5
    /\ heap[4].kind \in {"StarState", "PlusState"}
    /\ heap[4].next_states = <<5>>

EpsClosed(h, S) ==
    \A x \in S : h[x].kind \in {"StartState", "StarState", "PlusState"} =>
        \A y \in DOMAIN h : Edge(h, x, y) => y \in S

Running == calls[1].pc \in {"loop", "done"}

\* C20: from its initialisation on the active set of a call never holds the
\* start state and is epsilon-closed before every character step; an empty
\* active set stays empty over the remaining characters and the call then
\* returns false.
C20_ActiveSet ==
    /\ [](Running =>
            /\ start_state \notin calls[1].active
            /\ EpsClosed(heap, calls[1].active)
            /\ (Done(1) /\ calls[1].active = {}) => ~calls[1].ret)
    /\ [][(Running /\ calls[1].active = {}) => calls'[1].active = {}]_vars

\* a call whose first character matched nothing has consumed all its input
\* with an empty active set and returned false
C20_Witness ==
    /\ Done(1)
    /\ Len(calls[1].s) = MaxInLen
    /\ Len(pattern) > 0
    /\ NoWildcard(pattern)
    /\ ~PatChar(pattern, calls[1].s[1])
    /\ calls[1].active = {}
    /\ ~calls[1].ret

====
